---- MODULE Spec2Model ----
(***************************************************************************)
(* Insurance Comparison API (src/main.py): the quote submission handler    *)
(* create_quote, the listing handler list_quotes, the request validation   *)
(* declared by QuoteRequest, and the "quote" collection they use.          *)
(*                                                                         *)
(* Prices are Python floats (IEEE-754 binary64).  The model computes them  *)
(* bit-exactly: a float is a sign, a 53-bit significand and an exponent,   *)
(* the significand held as a little-endian sequence of base-2^15 limbs     *)
(* because the model checker's integers are 32 bits wide.                  *)
(***************************************************************************)
EXTENDS Integers, Sequences, FiniteSets, TLC

(***************************************************************************)
(* Natural numbers of arbitrary size: little-endian limbs, no leading      *)
(* zero limb, zero is the empty sequence.                                  *)
(***************************************************************************)
RECURSIVE Pow2(_)
Pow2(k) == IF k = 0 THEN 1 ELSE 2 * Pow2(k - 1)

\* bits per limb: products of two limbs fit the checker's integers
LimbBits == 15
Limb == Pow2(LimbBits)

RECURSIVE Trim(_)
Trim(a) ==
    IF a = <<>> THEN <<>>
    ELSE IF a[Len(a)] = 0 THEN Trim(SubSeq(a, 1, Len(a) - 1))
    ELSE a

RECURSIVE NatOf(_)
NatOf(n) == IF n = 0 THEN <<>> ELSE <<n % Limb>> \o NatOf(n \div Limb)

RECURSIVE IntOf(_)
IntOf(a) == IF a = <<>> THEN 0 ELSE a[1] + Limb * IntOf(Tail(a))

LimbAt(a, i) == IF i <= Len(a) THEN a[i] ELSE 0

RECURSIVE AddFrom(_, _, _, _)
AddFrom(a, b, i, carry) ==
    IF i > Len(a) /\ i > Len(b)
    THEN (IF carry = 0 THEN <<>> ELSE <<carry>>)
    ELSE LET s == LimbAt(a, i) + LimbAt(b, i) + carry
         IN  <<s % Limb>> \o AddFrom(a, b, i + 1, s \div Limb)

NatAdd(a, b) == AddFrom(a, b, 1, 0)

\* a - b for a >= b
RECURSIVE SubFrom(_, _, _, _)
SubFrom(a, b, i, borrow) ==
    IF i > Len(a) THEN <<>>
    ELSE LET s == LimbAt(a, i) - LimbAt(b, i) - borrow
         IN  IF s < 0 THEN <<s + Limb>> \o SubFrom(a, b, i + 1, 1)
             ELSE <<s>> \o SubFrom(a, b, i + 1, 0)

NatSub(a, b) == Trim(SubFrom(a, b, 1, 0))

\* -1, 0, 1 as a < b, a = b, a > b
RECURSIVE CmpFrom(_, _, _)
CmpFrom(a, b, i) ==
    IF i = 0 THEN 0
    ELSE IF a[i] < b[i] THEN -1
    ELSE IF a[i] > b[i] THEN 1
    ELSE CmpFrom(a, b, i - 1)

NatCmp(a, b) ==
    IF Len(a) < Len(b) THEN -1
    ELSE IF Len(a) > Len(b) THEN 1
    ELSE CmpFrom(a, b, Len(a))

\* a * k for 0 <= k < Limb
RECURSIVE MulSmallFrom(_, _, _, _)
MulSmallFrom(a, k, i, carry) ==
    IF i > Len(a)
    THEN (IF carry = 0 THEN <<>> ELSE <<carry>>)
    ELSE LET s == a[i] * k + carry
         IN  <<s % Limb>> \o MulSmallFrom(a, k, i + 1, s \div Limb)

NatMulSmall(a, k) == IF k = 0 THEN <<>> ELSE MulSmallFrom(a, k, 1, 0)

Zeros(n) == [i \in 1..n |-> 0]

RECURSIVE MulFrom(_, _, _)
MulFrom(a, b, j) ==
    IF j > Len(b) THEN <<>>
    ELSE NatAdd(IF b[j] = 0 THEN <<>> ELSE Zeros(j - 1) \o NatMulSmall(a, b[j]),
                MulFrom(a, b, j + 1))

NatMul(a, b) == IF a = <<>> \/ b = <<>> THEN <<>> ELSE MulFrom(a, b, 1)

\* quotient and remainder of a by d, 0 < d < Limb; from the top limb down
RECURSIVE DivSmallFrom(_, _, _, _)
DivSmallFrom(a, d, i, rem) ==
    IF i = 0 THEN [q |-> <<>>, r |-> rem]
    ELSE LET cur  == rem * Limb + a[i]
             rest == DivSmallFrom(a, d, i - 1, cur % d)
         IN  [q |-> rest.q \o <<cur \div d>>, r |-> rest.r]

NatDivSmall(a, d) ==
    [q |-> Trim(DivSmallFrom(a, d, Len(a), 0).q), r |-> DivSmallFrom(a, d, Len(a), 0).r]

NatShiftLeft(a, k) ==
    IF a = <<>> THEN <<>>
    ELSE Zeros(k \div LimbBits) \o NatMulSmall(a, Pow2(k % LimbBits))

RECURSIVE BitsOf(_)
BitsOf(n) == IF n = 0 THEN 0 ELSE 1 + BitsOf(n \div 2)

BitLen(a) == IF a = <<>> THEN 0 ELSE LimbBits * (Len(a) - 1) + BitsOf(a[Len(a)])

IsOdd(a) == a # <<>> /\ a[1] % 2 = 1

\* The one element of a singleton.  Only({e(v) : v \in {x}}) is e(x) with x
\* evaluated once, the way a Python local holds a value.
Only(S) == CHOOSE v \in S : TRUE

\* the limbs of n below limb whole + 1, and those from it on
LowLimbs(n, whole) == Trim(SubSeq(n, 1, IF whole < Len(n) THEN whole ELSE Len(n)))
HighLimbs(n, whole) == IF whole < Len(n) THEN SubSeq(n, whole + 1, Len(n)) ELSE <<>>

\* q rounded up when the discarded part rest exceeds half, or equals it and
\* the exact value lies above (sticky) or q is odd
RoundUp(q, rest, half, sticky) ==
    Only({ IF c > 0 \/ (c = 0 /\ (sticky \/ IsOdd(q))) THEN NatAdd(q, <<1>>) ELSE q :
           c \in {NatCmp(rest, half)} })

\* n / 2^k rounded to the nearest integer, ties to even; sticky says that
\* the exact value lies strictly above n (digits already discarded)
RoundShift(n, k, sticky) ==
    IF k <= 0 THEN NatShiftLeft(n, -k)
    ELSE Only({ RoundUp(d.q,
                        NatAdd(LowLimbs(n, k \div LimbBits),
                               NatShiftLeft(NatOf(d.r), LimbBits * (k \div LimbBits))),
                        NatShiftLeft(<<1>>, k - 1), sticky) :
                d \in {NatDivSmall(HighLimbs(n, k \div LimbBits), Pow2(k % LimbBits))} })

(***************************************************************************)
(* Python floats.  [s, m, e] stands for s * m * 2^e with s in {1, -1}; a   *)
(* nonzero float has a significand m of exactly 53 bits, zero has m = 0.   *)
(* Every operation returns the exact result rounded to the nearest float,  *)
(* ties to even, as IEEE-754 binary64 arithmetic does.  The values of the  *)
(* handler stay far from overflow and from the subnormal range.            *)
(***************************************************************************)
\* bits of a binary64 significand
SigBits == 53

FZero == [s |-> 1, m |-> <<>>, e |-> 0]

\* the float nearest to s * n * 2^e (above it by less than 2^e when sticky)
Normalize(s, nat, e, sticky) ==
    Only({ IF n = <<>> THEN FZero
           ELSE Only({ IF BitLen(q) > SigBits
                       THEN [s |-> s, m |-> RoundShift(q, 1, FALSE),
                             e |-> e + BitLen(n) - SigBits + 1]
                       ELSE [s |-> s, m |-> q, e |-> e + BitLen(n) - SigBits] :
                       q \in {RoundShift(n, BitLen(n) - SigBits, sticky)} }) :
           n \in {nat} })

\* int -> float
FromInt(n) == Normalize(IF n < 0 THEN -1 ELSE 1, NatOf(IF n < 0 THEN -n ELSE n), 0, FALSE)

\* the float a decimal literal n/d (n >= 0, 0 < d < Limb) denotes
FromRatio(n, d) ==
    Only({ Normalize(1, x.q, -75, x.r # 0) :
           x \in {NatDivSmall(NatShiftLeft(NatOf(n), 75), d)} })

FNeg(x) == Only({ IF a.m = <<>> THEN a ELSE [a EXCEPT !.s = -a.s] : a \in {x} })

MinExp(a, b) == IF a.e < b.e THEN a.e ELSE b.e

\* -1, 0, 1 as |a| < |b|, |a| = |b|, |a| > |b|
MagCmp(a, b) ==
    NatCmp(NatShiftLeft(a.m, a.e - MinExp(a, b)), NatShiftLeft(b.m, b.e - MinExp(a, b)))

\* sa * ma * 2^e + sb * mb * 2^e
AddAligned(sa, ma, sb, mb, e) ==
    IF sa = sb THEN Normalize(sa, NatAdd(ma, mb), e, FALSE)
    ELSE IF NatCmp(ma, mb) = 0 THEN FZero
    ELSE IF NatCmp(ma, mb) > 0 THEN Normalize(sa, NatSub(ma, mb), e, FALSE)
    ELSE Normalize(sb, NatSub(mb, ma), e, FALSE)

\* x + y
FAdd(x, y) ==
    Only({ IF a.m = <<>> THEN b
           ELSE IF b.m = <<>> THEN a
           ELSE Only({ AddAligned(a.s, ma, b.s, mb, MinExp(a, b)) :
                       ma \in {NatShiftLeft(a.m, a.e - MinExp(a, b))},
                       mb \in {NatShiftLeft(b.m, b.e - MinExp(a, b))} }) :
           a \in {x}, b \in {y} })

\* x - y
FSub(x, y) == FAdd(x, FNeg(y))

\* x * y
FMul(x, y) ==
    Only({ Normalize(a.s * b.s, NatMul(a.m, b.m), a.e + b.e, FALSE) :
           a \in {x}, b \in {y} })

\* x / d for an int d, 0 < d < Limb (d converts to a float exactly)
FDivInt(x, d) ==
    Only({ Only({ Normalize(a.s, q.q, a.e - 30, q.r # 0) :
                  q \in {NatDivSmall(NatShiftLeft(a.m, 30), d)} }) :
           a \in {x} })

\* x < y
FLess(x, y) ==
    Only({ IF a.m = <<>> THEN b.m # <<>> /\ b.s = 1
           ELSE IF b.m = <<>> THEN a.s = -1
           ELSE IF a.s # b.s THEN a.s = -1
           ELSE IF a.s = 1 THEN MagCmp(a, b) < 0
           ELSE MagCmp(a, b) > 0 :
           a \in {x}, b \in {y} })

\* Python's min(x, y): y when y < x, else x
FMin(x, y) == Only({ IF FLess(b, a) THEN b ELSE a : a \in {x}, b \in {y} })

\* round(x, 2): the exact binary value of x rounded to two decimals, ties
\* to even.  The result is a float again, the one nearest to cents/100;
\* distinct cents give distinct floats, so the model keeps the cents.
Round2(x) ==
    Only({ IF a.m = <<>> THEN 0
           ELSE a.s * IntOf(RoundShift(NatMulSmall(a.m, 100), -a.e, FALSE)) :
           a \in {x} })

(***************************************************************************)
(* QuoteRequest.  An Optional field is <<>> (None) or <<v>>.               *)
(***************************************************************************)
None == <<>>
Some(v) == <<v>>

\* Python truthiness of an Optional[int] or Optional[float]: not None, not 0
Truthy(x) == x # None /\ x[1] # 0

\* Python truthiness of an Optional[bool]: not None, not False
TruthyBool(x) == x # None /\ x[1]

\* `x or 0` for an Optional[int]
OrZero(x) == IF x = None THEN 0 ELSE x[1]

\* Field(None, ge=lo, le=hi); hi = <<>> when no upper limit is declared
InRange(x, lo, hi) == x = None \/ (x[1] >= lo /\ (hi = None \/ x[1] <= hi[1]))

\* Validate with age's ge=16 left out
ValidateNoMinimumAge(payload) ==
    /\ payload.quote_type \in {"auto", "home"}
    /\ InRange(payload.age, 0, Some(120))
    /\ InRange(payload.vehicle_year, 1980, Some(2100))
    /\ InRange(payload.accidents_last_5_years, 0, Some(10))
    /\ InRange(payload.home_value, 0, None)
    /\ InRange(payload.square_feet, 100, None)

\* The constraints QuoteRequest declares; FastAPI checks them on the body
\* before it calls the handler, and answers 422 when one is violated.
Validate(payload) ==
    /\ payload.quote_type \in {"auto", "home"}
    /\ InRange(payload.age, 16, Some(120))
    /\ InRange(payload.vehicle_year, 1980, Some(2100))
    /\ InRange(payload.accidents_last_5_years, 0, Some(10))
    /\ InRange(payload.home_value, 0, None)
    /\ InRange(payload.square_feet, 100, None)

(***************************************************************************)
(* The pricing part of create_quote.                                       *)
(***************************************************************************)
\* the float literals of create_quote
Lit600  == FromRatio(600, 1)
Lit1200 == FromRatio(1200, 1)
Lit0p25 == FromRatio(25, 100)
Lit0p15 == FromRatio(15, 100)
Lit0p4  == FromRatio(4, 10)
Lit0p1  == FromRatio(1, 10)
Lit0p2  == FromRatio(2, 10)
Lit0p05 == FromRatio(5, 100)
Lit0p95 == FromRatio(95, 100)
Lit1p02 == FromRatio(102, 100)
Lit0p88 == FromRatio(88, 100)

BasePrice(payload) == IF payload.quote_type = "auto" THEN Lit600 ELSE Lit1200

\* AgeModifier with age <= 25 for age < 25
AgeModifierInclusive(payload) ==
    IF Truthy(payload.age) /\ payload.age[1] <= 25 THEN Lit0p25 ELSE FZero

AgeModifier(payload) ==
    IF Truthy(payload.age) /\ payload.age[1] < 25 THEN Lit0p25 ELSE FZero

VehicleYearModifier(payload) ==
    IF Truthy(payload.vehicle_year) /\ payload.vehicle_year[1] < 2005
    THEN Lit0p15 ELSE FZero

\* AccidentModifier without the min(0.4, ...)
AccidentModifierUncapped(payload) ==
    IF OrZero(payload.accidents_last_5_years) > 0
    THEN FMul(Lit0p1, FromInt(OrZero(payload.accidents_last_5_years)))
    ELSE FZero

\* min(0.4, 0.1 * (accidents or 0)) when (accidents or 0) > 0
AccidentModifier(payload) ==
    IF OrZero(payload.accidents_last_5_years) > 0
    THEN FMin(Lit0p4, FMul(Lit0p1, FromInt(OrZero(payload.accidents_last_5_years))))
    ELSE FZero

HomeValueModifier(payload) ==
    IF Truthy(payload.home_value) /\ payload.home_value[1] > 750000
    THEN Lit0p2 ELSE FZero

SecurityModifier(payload) ==
    IF TruthyBool(payload.security_system) THEN Lit0p05 ELSE FZero

\* Modifiers without the tests of quote_type
ModifiersAnyType(payload) ==
    FSub(FAdd(FAdd(FAdd(FAdd(FZero, AgeModifier(payload)), VehicleYearModifier(payload)),
                   AccidentModifier(payload)),
              HomeValueModifier(payload)),
         SecurityModifier(payload))

\* modifiers, accumulated in the order of the statements
Modifiers(payload) ==
    IF payload.quote_type = "auto"
    THEN FAdd(FAdd(FAdd(FZero, AgeModifier(payload)), VehicleYearModifier(payload)),
              AccidentModifier(payload))
    ELSE IF payload.quote_type = "home"
    THEN FSub(FAdd(FAdd(FZero, AgeModifier(payload)), HomeValueModifier(payload)),
              SecurityModifier(payload))
    ELSE FAdd(FZero, AgeModifier(payload))

\* the int 1 of `1 + modifiers`, converted to a float
One == FromInt(1)

\* base_price * (1 + modifiers) / 12
MonthlyBase(payload) ==
    FDivInt(FMul(BasePrice(payload), FAdd(One, Modifiers(payload))), 12)

\* round(base_price * (1 + modifiers) / 12 * multiplier, 2), in cents
Monthly(base, multiplier) == Round2(FMul(base, multiplier))

Offer(name, monthly, rating, features, cta) ==
    [name |-> name, monthly |-> monthly, rating |-> rating,
     features |-> features, cta |-> cta]

Carriers(payload) ==
    Only({ << Offer("BlueShield Mutual", Monthly(base, Lit0p95), "4.7",
                    <<"24/7 support", "Bundle discount", "Fast claims">>, "Get Started"),
              Offer("NorthStar Insurance", Monthly(base, Lit1p02), "4.5",
                    <<"Accident forgiveness", "Roadside (auto)", "Smart home (home)">>,
                    "Select"),
              Offer("Aurora Coverage Co.", Monthly(base, Lit0p88), "4.3",
                    <<"Low deductible options", "Local agents", "Online portal">>,
                    "View Details") >> :
           base \in {MonthlyBase(payload)} })

(***************************************************************************)
(* The "quote" collection behind create_document and get_documents, and    *)
(* the module-level handle db.                                             *)
(***************************************************************************)
HexDigit(n) == <<"0", "1", "2", "3", "4", "5", "6", "7",
                 "8", "9", "a", "b", "c", "d", "e", "f">>[n + 1]

RECURSIVE Hex(_, _)
Hex(n, width) ==
    IF width = 0 THEN <<>> ELSE Hex(n \div 16, width - 1) \o <<HexDigit(n % 16)>>

\* str(ObjectId): 24 hexadecimal digits
Str(oid) == Hex(oid, 24)

\* the identifier the store gives the next document: unused so far
NewObjectId(collection) == Len(collection) + 1

\* create_document(collection_name, data): one atomic insert of a copy of
\* data under a fresh _id; returns the identifier as a string
CreateDocument(collection, data) ==
    LET oid == NewObjectId(collection)
    IN  [collection |-> Append(collection, data @@ ("_id" :> oid)),
         inserted_id |-> Str(oid)]

\* get_documents(collection_name, limit=limit): copies of at most limit
\* documents, the most recently inserted ones, in insertion order
GetDocuments(collection, limit) ==
    LET n == IF limit < 0 THEN 0
             ELSE IF limit < Len(collection) THEN limit ELSE Len(collection)
    IN  SubSeq(collection, Len(collection) - n + 1, Len(collection))

(***************************************************************************)
(* Inputs.                                                                 *)
(***************************************************************************)
NumRequests == 3
Slots == 1..NumRequests

Payload(qt, zip, age, year, make, model, acc, value, feet, sec) ==
    [quote_type |-> qt, zip_code |-> zip, age |-> age,
     vehicle_year |-> year, vehicle_make |-> make, vehicle_model |-> model,
     accidents_last_5_years |-> acc,
     home_value |-> value, square_feet |-> feet, security_system |-> sec]

\* submissions of the concurrent runs: an auto request, a home request, and
\* two that violate a constraint (age below 16, vehicle_year below 1980)
Payloads ==
    { Payload("auto", "10001", Some(30), Some(2010), Some("Honda"), Some("Civic"),
              Some(0), None, None, None),
      Payload("home", "94105", Some(30), None, None, None,
              None, Some(800000), Some(1500), Some(TRUE)),
      Payload("auto", "10001", Some(15), Some(2010), None, None,
              Some(1), None, None, None),
      Payload("home", "94105", Some(30), Some(1975), None, None,
              None, Some(800000), None, None) }

\* ?limit=N; 20 is the default
Limits == {-1, 0, 1, 20}

\* submissions of the pricing runs
PricedPayloads ==
    { Payload(qt, zip, age, year, make, model, acc, value, feet, sec) :
        qt \in {"auto", "home"}, zip \in {"10001", "94105"},
        age \in {None, Some(15), Some(24), Some(25)},
        year \in {None, Some(1975), Some(2004), Some(2005)},
        make \in {None, Some("Honda")}, model \in {None, Some("Civic")},
        acc \in {None, Some(0), Some(3)} \cup {Some(n) : n \in 4..10},
        value \in {None, Some(750000), Some(800000)}, feet \in {None, Some(1500)},
        sec \in {None, Some(TRUE), Some(FALSE)} }

(***************************************************************************)
(* State.                                                                  *)
(***************************************************************************)
VARIABLES
    db,      \* the module-level database handle: "Database" or "None"
    store,   \* the documents of the "quote" collection, in insertion order
    writer,  \* history: writer[i] is the request that inserted store[i]
    req      \* per request: its input, its place in the handler, its locals
             \* (carriers), its response (status, body), and history: ops,
             \* the store operations it issued, and readAt, the size of the
             \* collection when it read it

vars == <<db, store, writer, req>>

Idle ==
    [kind |-> "idle", pc |-> "idle", payload |-> None, limit |-> 0, carriers |-> None,
     status |-> 0, body |-> None, ops |-> 0, readAt |-> 0]

Init ==
    /\ db \in {"Database", "None"}
    /\ store = <<>>
    /\ writer = <<>>
    /\ req = [r \in Slots |-> Idle]

Error(slot, status, detail) ==
    [slot EXCEPT !.pc = "done", !.status = status, !.body = [detail |-> detail]]

\* the body of a POST /api/quotes is checked against QuoteRequest;
\* create_quote then runs up to its call of create_document
StartQuote(payload) ==
    IF ~Validate(payload)
    THEN Error([Idle EXCEPT !.kind = "create", !.payload = payload], 422, "validation error")
    ELSE IF db = "None"
    THEN Error([Idle EXCEPT !.kind = "create", !.payload = payload], 500,
               "Database not configured")
    ELSE [Idle EXCEPT !.kind = "create", !.payload = payload, !.pc = "insert",
                      !.carriers = Carriers(payload)]

\* a POST /api/quotes arrives, its body one of payloads
PostQuote(r, payloads) ==
    /\ req[r].kind = "idle"
    /\ \E payload \in payloads : req' = [req EXCEPT ![r] = StartQuote(payload)]
    /\ UNCHANGED <<db, store, writer>>

\* doc = payload.model_dump(); doc["results"] = carriers
Document(payload, carriers) == payload @@ ("results" :> carriers)

\* QuoteResponse with quote_type and zip_code exchanged
QuoteResponseSwapped(id, quote_type, zip_code, results) ==
    [id |-> id, quote_type |-> zip_code, zip_code |-> quote_type, results |-> results]

QuoteResponse(id, quote_type, zip_code, results) ==
    [id |-> id, quote_type |-> quote_type, zip_code |-> zip_code, results |-> results]

\* create_document returned inserted_id: the handler answers 200
SaveQuote(slot, inserted_id) ==
    [slot EXCEPT !.pc = "done", !.status = 200, !.ops = @ + 1,
                 !.body = QuoteResponse(inserted_id, slot.payload.quote_type,
                                        slot.payload.zip_code, slot.carriers)]

\* SaveFailed answering 200 without an id
SaveFailedSwallowed(slot) == SaveQuote(slot, <<>>)

\* SaveFailed calling create_document again
SaveFailedRetry(slot) == [slot EXCEPT !.ops = @ + 1]

\* create_document raised: the handler answers 500
SaveFailed(slot) == [Error(slot, 500, "Failed to save") EXCEPT !.ops = @ + 1]

\* InsertQuote with carriers a module-level variable: the offers inserted
\* and returned are those of the request priced last, whichever it is
InsertQuoteSharedCarriers(r) ==
    /\ req[r].kind = "create" /\ req[r].pc = "insert"
    /\ \E ok \in BOOLEAN, q \in {q \in Slots : req[q].carriers # None} :
         IF ok
         THEN LET res == CreateDocument(store, Document(req[r].payload, req[q].carriers))
              IN  /\ store' = res.collection
                  /\ writer' = Append(writer, r)
                  /\ req' = [req EXCEPT ![r] =
                               SaveQuote([req[r] EXCEPT !.carriers = req[q].carriers],
                                         res.inserted_id)]
         ELSE /\ req' = [req EXCEPT ![r] = SaveFailed(req[r])]
              /\ UNCHANGED <<store, writer>>
    /\ UNCHANGED db

\* InsertQuote with the document left in the store when the write raises
InsertQuoteKeepsFailedWrite(r) ==
    /\ req[r].kind = "create" /\ req[r].pc = "insert"
    /\ \E ok \in BOOLEAN :
         LET res == CreateDocument(store, Document(req[r].payload, req[r].carriers))
         IN  /\ store' = res.collection
             /\ writer' = Append(writer, r)
             /\ req' = [req EXCEPT ![r] = IF ok THEN SaveQuote(req[r], res.inserted_id)
                                          ELSE SaveFailed(req[r])]
    /\ UNCHANGED db

\* create_quote from its call of create_document to its return
InsertQuote(r) ==
    /\ req[r].kind = "create" /\ req[r].pc = "insert"
    /\ \E ok \in BOOLEAN :
         IF ok
         THEN LET res == CreateDocument(store, Document(req[r].payload, req[r].carriers))
              IN  /\ store' = res.collection
                  /\ writer' = Append(writer, r)
                  /\ req' = [req EXCEPT ![r] = SaveQuote(req[r], res.inserted_id)]
         ELSE /\ req' = [req EXCEPT ![r] = SaveFailed(req[r])]
              /\ UNCHANGED <<store, writer>>
    /\ UNCHANGED db

\* list_quotes up to its call of get_documents
StartList(limit) ==
    IF db = "None"
    THEN Error([Idle EXCEPT !.kind = "list", !.limit = limit], 500, "Database not configured")
    ELSE [Idle EXCEPT !.kind = "list", !.limit = limit, !.pc = "read"]

\* a GET /api/quotes?limit=N arrives, N one of limits
GetQuotes(r, limits) ==
    /\ req[r].kind = "idle"
    /\ \E limit \in limits : req' = [req EXCEPT ![r] = StartList(limit)]
    /\ UNCHANGED <<db, store, writer>>

\* for d in docs: d["_id"] = str(d["_id"])
Items(docs) == [i \in 1..Len(docs) |-> [docs[i] EXCEPT !["_id"] = Str(@)]]

\* get_documents returned docs: the handler answers 200 with the items
ListQuotes(slot, docs) ==
    [slot EXCEPT !.pc = "done", !.status = 200, !.ops = @ + 1,
                 !.body = [items |-> Items(docs)], !.readAt = Len(store)]

\* get_documents raised: the handler answers 500
ListFailed(slot) == [Error(slot, 500, "read failed") EXCEPT !.ops = @ + 1]

\* ReadQuotes with get_documents called without limit=limit
ReadQuotesUnlimited(r) ==
    /\ req[r].kind = "list" /\ req[r].pc = "read"
    /\ \E ok \in BOOLEAN :
         req' = [req EXCEPT ![r] =
                   IF ok THEN ListQuotes(req[r], store)
                   ELSE ListFailed(req[r])]
    /\ UNCHANGED <<db, store, writer>>

\* list_quotes from its call of get_documents to its return
ReadQuotes(r) ==
    /\ req[r].kind = "list" /\ req[r].pc = "read"
    /\ \E ok \in BOOLEAN :
         req' = [req EXCEPT ![r] =
                   IF ok THEN ListQuotes(req[r], GetDocuments(store, req[r].limit))
                   ELSE ListFailed(req[r])]
    /\ UNCHANGED <<db, store, writer>>

Next ==
    \E r \in Slots :
        \/ PostQuote(r, Payloads)
        \/ InsertQuote(r)
        \/ GetQuotes(r, Limits)
        \/ ReadQuotes(r)

Spec == Init /\ [][Next]_vars

\* one submission, drawn from PricedPayloads
NextPricing ==
    \/ PostQuote(1, PricedPayloads)
    \/ InsertQuote(1)

SpecPricing == Init /\ [][NextPricing]_vars

(***************************************************************************)
(* Properties.                                                             *)
(***************************************************************************)
Created(r) == req[r].kind = "create" /\ req[r].status = 200
Listed(r) == req[r].kind = "list" /\ req[r].status = 200
Failed(r) == req[r].pc = "done" /\ req[r].status # 200
Priced(r) == req[r].kind = "create" /\ req[r].carriers # None

MonthlyPrices(results) == [i \in 1..Len(results) |-> results[i].monthly]

Writers == {writer[i] : i \in 1..Len(writer)}

\* the offers create_quote computes for each submission of the concurrent runs
Offers == [payload \in Payloads |-> Carriers(payload)]

\* C1: when a listing with limit 1 read a collection that held exactly one
\* record, it returns exactly one item, and that item is the record of the
\* successful create that inserted it: same quote_type, zip_code and results
\* as the create's response, and its _id, a string, is the response's id.
C1_CreateThenList ==
    \A l \in Slots :
        (Listed(l) /\ req[l].limit = 1 /\ req[l].readAt = 1) =>
            /\ Len(req[l].body.items) = 1
            /\ Created(writer[1])
            /\ req[l].body.items[1]["_id"] = req[writer[1]].body.id
            /\ req[l].body.items[1].quote_type = req[writer[1]].body.quote_type
            /\ req[l].body.items[1].zip_code = req[writer[1]].body.zip_code
            /\ req[l].body.items[1].results = req[writer[1]].body.results
            /\ req[l].body.items[1].results = Offers[req[writer[1]].payload]

C1_Witness ==
    \E l \in Slots : Listed(l) /\ req[l].limit = 1 /\ req[l].readAt = 1

\* C2 as stated: a successful listing returns no more than limit records,
\* for every limit, negative ones included.
C2_AtMostLimitAnyLimit ==
    \A l \in Slots : Listed(l) => Len(req[l].body.items) <= req[l].limit

\* C2, amended: a successful listing with limit >= 0 returns no more than
\* limit records (a negative limit cannot bound a count).
C2_AtMostLimit ==
    \A l \in Slots :
        (Listed(l) /\ req[l].limit >= 0) => Len(req[l].body.items) <= req[l].limit

\* a listing cut short: the collection held two records, the limit was 1
C2_Witness ==
    \E l \in Slots : Listed(l) /\ req[l].limit = 1 /\ req[l].readAt = 2

\* C3: a submission has no partial outcome.  Answered 200, its response
\* carries the offers priced from it and the id of a record in the store
\* with the same results; answered with an error (store not configured,
\* write failed), its response carries a detail only, no id and no offers,
\* and the store holds no record of it.
C3_NoPartialFailure ==
    \A r \in Slots :
        /\ Created(r) =>
              /\ req[r].body.results = Offers[req[r].payload]
              /\ \E i \in 1..Len(store) :
                    /\ writer[i] = r
                    /\ Str(store[i]["_id"]) = req[r].body.id
                    /\ store[i].results = req[r].body.results
        /\ (req[r].kind = "create" /\ Failed(r)) =>
              /\ req[r].status \in {422, 500}
              /\ DOMAIN req[r].body = {"detail"}
              /\ r \notin Writers

\* a write failure beside a submission that went through
C3_Witness ==
    \E r, q \in Slots :
        /\ Created(q)
        /\ req[r].kind = "create" /\ req[r].status = 500 /\ req[r].ops = 1

\* the ranges section 3 of the specification declares
BreaksRange(x, lo, hi) == x # None /\ (x[1] < lo \/ x[1] > hi)

BreaksConstraint(payload) ==
    \/ BreaksRange(payload.age, 16, 120)
    \/ BreaksRange(payload.vehicle_year, 1980, 2100)
    \/ BreaksRange(payload.accidents_last_5_years, 0, 10)
    \/ (payload.home_value # None /\ payload.home_value[1] < 0)
    \/ (payload.square_feet # None /\ payload.square_feet[1] < 100)

\* C4: a submission that violates a declared constraint is answered 422
\* before pricing: no offers were computed for it, it issued no store
\* operation, and the store holds no record of it, whatever db is.
C4_RejectedBeforePricing ==
    \A r \in Slots :
        (req[r].kind = "create" /\ BreaksConstraint(req[r].payload)) =>
            /\ req[r].pc = "done" /\ req[r].status = 422
            /\ req[r].carriers = None
            /\ req[r].ops = 0
            /\ r \notin Writers

\* age=15 and vehicle_year=1975 both rejected, the store configured
C4_Witness ==
    /\ db = "Database"
    /\ \E r, q \in Slots :
          /\ req[r].kind = "create" /\ req[r].payload.age = Some(15)
          /\ req[q].kind = "create" /\ req[q].payload.vehicle_year = Some(1975)

\* C5: an auto request with age >= 25, vehicle_year >= 2005 and no accident
\* has modifier 0 and is offered 47.50, 51.00 and 44.00 a month, in the
\* carriers' order, whatever its other fields.
C5_CleanAutoPrices ==
    \A r \in Slots :
        ( /\ Priced(r)
          /\ req[r].payload.quote_type = "auto"
          /\ req[r].payload.age # None /\ req[r].payload.age[1] >= 25
          /\ req[r].payload.vehicle_year # None /\ req[r].payload.vehicle_year[1] >= 2005
          /\ req[r].payload.accidents_last_5_years = Some(0) ) =>
            /\ Modifiers(req[r].payload) = FZero
            /\ MonthlyPrices(req[r].carriers) = <<4750, 5100, 4400>>
            /\ Created(r) => MonthlyPrices(req[r].body.results) = <<4750, 5100, 4400>>

C5_Witness ==
    \E r \in Slots :
        /\ Created(r)
        /\ req[r].payload.quote_type = "auto"
        /\ req[r].payload.age = Some(25)
        /\ req[r].payload.vehicle_year = Some(2005)
        /\ req[r].payload.accidents_last_5_years = Some(0)
        /\ req[r].payload.zip_code = "94105"
        /\ req[r].payload.home_value = Some(800000)

\* 0.1 x n in floats
TenthsOf(n) == FMul(Lit0p1, FromInt(n))

\* C6: the accident part of an auto request's modifier is 0 without
\* accidents, 0.1 x accidents while that is below 0.4, and 0.4 otherwise; it
\* never exceeds 0.4, and 4 to 10 accidents are all priced as 4 are.
C6_AccidentCap ==
    \A r \in Slots :
        (Created(r) /\ req[r].payload.quote_type = "auto") =>
            /\ ~FLess(Lit0p4, AccidentModifier(req[r].payload))
            /\ OrZero(req[r].payload.accidents_last_5_years) = 0 =>
                  AccidentModifier(req[r].payload) = FZero
            /\ OrZero(req[r].payload.accidents_last_5_years) \in 1..3 =>
                  AccidentModifier(req[r].payload) =
                      TenthsOf(req[r].payload.accidents_last_5_years[1])
            /\ OrZero(req[r].payload.accidents_last_5_years) >= 4 =>
                  /\ AccidentModifier(req[r].payload) = Lit0p4
                  /\ MonthlyPrices(req[r].body.results) =
                        MonthlyPrices(Carriers([req[r].payload EXCEPT
                                                  !.accidents_last_5_years = Some(4)]))

C6_Witness ==
    \E r \in Slots :
        /\ Created(r)
        /\ req[r].payload.quote_type = "auto"
        /\ req[r].payload.accidents_last_5_years = Some(10)

\* a request with the fields of the other quote type left out
OwnFields(payload) ==
    IF payload.quote_type = "auto"
    THEN [payload EXCEPT !.home_value = None, !.square_feet = None,
                         !.security_system = None]
    ELSE [payload EXCEPT !.vehicle_year = None, !.vehicle_make = None,
                         !.vehicle_model = None, !.accidents_last_5_years = None]

RequestFields ==
    {"quote_type", "zip_code", "age", "vehicle_year", "vehicle_make", "vehicle_model",
     "accidents_last_5_years", "home_value", "square_feet", "security_system"}

\* C7: a request is priced as the request with the other type's fields left
\* out is, so two requests that differ only in those fields get the same
\* three monthly prices; the stored record keeps every field as submitted.
C7_OtherTypeFieldsIgnored ==
    \A r \in Slots :
        Created(r) =>
            /\ MonthlyPrices(req[r].body.results) =
                  MonthlyPrices(Carriers(OwnFields(req[r].payload)))
            /\ \E i \in 1..Len(store) :
                  /\ writer[i] = r
                  /\ \A f \in RequestFields : store[i][f] = req[r].payload[f]

\* a home request that carries vehicle fields and accidents
C7_Witness ==
    \E r \in Slots :
        /\ Created(r)
        /\ req[r].payload.quote_type = "home"
        /\ req[r].payload.vehicle_year = Some(2004)
        /\ req[r].payload.accidents_last_5_years = Some(10)
        /\ store[1].vehicle_year = Some(2004)

\* C8: the store is append-only.  Every step keeps the records it held, in
\* place and unchanged, and adds at most one; only the step in which a
\* create succeeds adds one, so a listing, a failed create and a rejected
\* submission leave the store as it was.
C8_AppendOnly ==
    [][ /\ Len(store') \in {Len(store), Len(store) + 1}
        /\ SubSeq(store', 1, Len(store)) = store
        /\ \A r \in Slots :
              (req'[r] # req[r] /\ ~(req'[r].kind = "create" /\ req'[r].status = 200))
                  => store' = store
        /\ store' # store =>
              \E r \in Slots : req[r].pc = "insert" /\ Created(r)' ]_vars

\* a record in the store, a listing that has returned it, and a create
\* that failed after it
C8_Witness ==
    \E l, r \in Slots :
        /\ Listed(l) /\ Len(store) = 1 /\ Len(req[l].body.items) = 1
        /\ req[r].kind = "create" /\ req[r].status = 500

\* the documents a listing gets from a collection that holds the first n
\* records of the store
ItemsAt(n, limit) == Items(GetDocuments(SubSeq(store, 1, n), limit))

\* C9: every successful create is one insert of its own.  The store holds
\* one record per successful create, under pairwise distinct ids; each
\* record holds the request of its create and the offers priced from that
\* request, and the create's response carries that record's id and offers.
\* What a request computes depends on no other request: its offers are
\* those of its own payload, and a listing returns what the store held
\* when it read it.
C9_IndependentInserts ==
    /\ Len(store) = Cardinality({r \in Slots : Created(r)})
    /\ Len(writer) = Len(store)
    /\ \A i, j \in 1..Len(store) :
          i # j => (store[i]["_id"] # store[j]["_id"] /\ writer[i] # writer[j])
    /\ \A i \in 1..Len(store) :
          /\ Created(writer[i])
          /\ req[writer[i]].body.id = Str(store[i]["_id"])
          /\ \A f \in RequestFields : store[i][f] = req[writer[i]].payload[f]
          /\ store[i].results = Offers[req[writer[i]].payload]
          /\ req[writer[i]].body.results = store[i].results
    /\ \A r \in Slots :
          /\ Priced(r) => req[r].carriers = Offers[req[r].payload]
          /\ Listed(r) => req[r].body.items = ItemsAt(req[r].readAt, req[r].limit)

\* two creates went through, and a listing read the store between them
C9_Witness ==
    /\ Cardinality({r \in Slots : Created(r)}) = 2
    /\ \E l \in Slots : Listed(l) /\ req[l].readAt = 1 /\ req[l].limit = 20

\* C10: no retry.  A request issues at most one store operation, and none
\* when the store is not configured; a request that has been answered
\* takes no further step; a failed store operation ends the request with
\* 500 in the step in which it fails.
C10_NoRetry ==
    /\ [](\A r \in Slots :
            /\ req[r].ops <= 1
            /\ (req[r].kind # "idle" /\ db = "None") =>
                  (req[r].pc = "done" /\ req[r].ops = 0
                   /\ req[r].status \in {422, 500}
                   /\ (req[r].kind = "list" => req[r].status = 500))
            /\ (req[r].status = 500 /\ db = "Database") => req[r].ops = 1)
    /\ [][ \A r \in Slots :
             /\ req[r].pc = "done" => req'[r] = req[r]
             /\ (req'[r].ops # req[r].ops /\ req'[r].status # 200) =>
                   (req'[r].pc = "done" /\ req'[r].status = 500) ]_vars

\* a write and a read that failed
C10_Witness ==
    \E r, q \in Slots :
        /\ req[r].kind = "create" /\ req[r].status = 500 /\ req[r].ops = 1
        /\ req[q].kind = "list" /\ req[q].status = 500 /\ req[q].ops = 1

====
